---- MODULE Spec2Model ----
(***************************************************************************)
(* Model of the Postgres Flex database resource                            *)
(* (stackit/internal/services/postgresflex/database/resource.go).          *)
(*                                                                         *)
(* A Go string is a sequence of one-character strings, so that             *)
(* strings.Split and strings.Join are computed character by character.     *)
(* A *string is a record [nil, v]; a types.String is a record              *)
(* [null, value] (null and unknown are not told apart: ValueString and     *)
(* ValueStringPointer, the only readers the resource uses, treat them      *)
(* alike).                                                                 *)
(***************************************************************************)
EXTENDS Integers, Sequences, FiniteSets, TLC

VARIABLES
    client,   \* databaseResource.client: 0 is nil, n > 0 the n-th client built
    state,    \* the persisted record (req.State / resp.State): [present, model]
    last,     \* the last handler invocation: its request, the remote responses, its response
    call      \* the last direct application of a helper function: [fn, args, result]

vars == <<client, state, last, call>>

----------------------------------------------------------------------------
(* Bounds *)

MaxRawLen == 5     \* longest import identifier tried
MaxList == 2       \* longest list a ListDatabases response carries (lifecycle)
MaxScanList == 3   \* longest list handed to getDatabase directly
MaxClients == 2    \* clients built before Configure stops succeeding

----------------------------------------------------------------------------
(* Strings *)

Separator == <<",">>

Alphabet == {"a", "b", ","}

BoundedSeq(S, n) == UNION {[1..k -> S] : k \in 0..n}

\* strings.Index: the position of the first occurrence of sep in s, 0 if none
Index(s, sep) ==
    LET hits == {i \in 1..(Len(s) - Len(sep) + 1) : SubSeq(s, i, i + Len(sep) - 1) = sep}
    IN  IF hits = {} THEN 0 ELSE CHOOSE i \in hits : \A j \in hits : i <= j

RECURSIVE Split(_, _)
\* strings.Split(s, sep) for a non-empty sep
Split(s, sep) ==
    LET i == Index(s, sep)
    IN  IF i = 0 THEN <<s>>
        ELSE <<SubSeq(s, 1, i - 1)>> \o Split(SubSeq(s, i + Len(sep), Len(s)), sep)

RECURSIVE Join(_, _)
\* strings.Join(parts, sep)
Join(parts, sep) ==
    IF Len(parts) = 0 THEN <<>>
    ELSE IF Len(parts) = 1 THEN parts[1]
    ELSE parts[1] \o sep \o Join(Tail(parts), sep)

----------------------------------------------------------------------------
(* Values *)

NilString == [nil |-> TRUE, v |-> <<>>]
StringPtr(s) == [nil |-> FALSE, v |-> s]

StringNull == [null |-> TRUE, value |-> <<>>]
StringValue(s) == [null |-> FALSE, value |-> s]
StringPointerValue(p) == IF p.nil THEN StringNull ELSE StringValue(p.v)
ValueString(t) == IF t.null THEN <<>> ELSE t.value
ValueStringPointer(t) == IF t.null THEN NilString ELSE StringPtr(t.value)

\* errors
NoError == [kind |-> "nil", status |-> 0, msg |-> ""]
Errorf(msg) == [kind |-> "errorString", status |-> 0, msg |-> msg]
OpenAPIError(status) == [kind |-> "GenericOpenAPIError", status |-> status, msg |-> "api"]
TransportError == [kind |-> "transport", status |-> 0, msg |-> "transport"]

StatusNotFound == 404

\* the errors a remote call's Execute may return: an API error carrying an HTTP
\* status (not found, or another one), or an error that is no API error
ApiErrors == {OpenAPIError(StatusNotFound), OpenAPIError(500), TransportError}

\* a diagnostic of core.LogAndAddError / core.LogAndAddWarning
ErrorDiag(summary, detail) == [severity |-> "error", summary |-> summary, detail |-> detail]
WarningDiag(summary, detail) == [severity |-> "warning", summary |-> summary, detail |-> detail]
HasError(diags) == \E k \in 1..Len(diags) : diags[k].severity = "error"

----------------------------------------------------------------------------
(* Model: the record of the resource *)

Model(id, databaseId, instanceId, projectId, name, owner) ==
    [Id |-> id, DatabaseId |-> databaseId, InstanceId |-> instanceId,
     ProjectId |-> projectId, Name |-> name, Owner |-> owner]

EmptyModel == Model(StringNull, StringNull, StringNull, StringNull, StringNull, StringNull)

\* &model, or a nil *Model
ModelPtr(m) == [nil |-> FALSE, v |-> m]
NilModel == [nil |-> TRUE, v |-> EmptyModel]

----------------------------------------------------------------------------
(* postgresflex.InstanceDatabase: the remote object *)

\* a value of the Options map: a string, or a scalar that is no string
StringOption(s) == [isString |-> TRUE, s |-> s]
NumberOption == [isString |-> FALSE, s |-> <<>>]

EmptyMap == [k \in {} |-> NumberOption]
OwnerMap(value) == [k \in {"owner"} |-> value]

NilOptions == [nil |-> TRUE, m |-> EmptyMap]
OptionsPtr(m) == [nil |-> FALSE, m |-> m]

InstanceDatabase(id, name, options) == [Id |-> id, Name |-> name, Options |-> options]

DatabasePtr(database) == [nil |-> FALSE, v |-> database]
NilDatabase == [nil |-> TRUE, v |-> InstanceDatabase(NilString, NilString, NilOptions)]

----------------------------------------------------------------------------
(* mapFields *)

\* the mutant: the stored DatabaseId is ignored
resolveDatabaseId_remoteWins(databaseResp, model) ==
    [ok |-> TRUE, databaseId |-> databaseResp.Id.v]

\* lines 325-332: the DatabaseId of the record wins over the remote Id
resolveDatabaseId(databaseResp, model) ==
    IF ValueString(model.DatabaseId) # <<>>
    THEN [ok |-> TRUE, databaseId |-> ValueString(model.DatabaseId)]
    ELSE IF ~databaseResp.Id.nil
    THEN [ok |-> TRUE, databaseId |-> databaseResp.Id.v]
    ELSE [ok |-> FALSE, databaseId |-> <<>>]

\* the mutant: instance id first
compositeId_swapped(model, databaseId) ==
    Join(<<ValueString(model.InstanceId), ValueString(model.ProjectId), databaseId>>, Separator)

\* the mutant: the record's Id is read where its ProjectId is meant
compositeId_fromId(model, databaseId) ==
    Join(<<ValueString(model.Id), ValueString(model.InstanceId), databaseId>>, Separator)

\* lines 333-340
compositeId(model, databaseId) ==
    Join(<<ValueString(model.ProjectId), ValueString(model.InstanceId), databaseId>>, Separator)

\* the mutant: the owner option is never copied
mapOwner_ignored(options, model) ==
    [err |-> NoError, model |-> model]

\* the mutant: a missing owner option clears Owner
mapOwner_clears(options, model) ==
    IF ~options.nil /\ "owner" \in DOMAIN options.m
    THEN IF ~options.m["owner"].isString
         THEN [err |-> Errorf("owner is not a string"), model |-> model]
         ELSE [err |-> NoError,
               model |-> [model EXCEPT !.Owner = StringValue(options.m["owner"].s)]]
    ELSE [err |-> NoError, model |-> [model EXCEPT !.Owner = StringNull]]

\* lines 344-353
mapOwner(options, model) ==
    IF ~options.nil /\ "owner" \in DOMAIN options.m
    THEN IF ~options.m["owner"].isString
         THEN [err |-> Errorf("owner is not a string"), model |-> model]
         ELSE [err |-> NoError,
               model |-> [model EXCEPT !.Owner = StringValue(options.m["owner"].s)]]
    ELSE [err |-> NoError, model |-> model]

\* mapFields(databaseResp *InstanceDatabase, model *Model): the error it returns
\* and the record model points to when it returns
mapFields(databaseResp, model) ==
    IF databaseResp.nil
    THEN [err |-> Errorf("response is nil"), model |-> model]
    ELSE IF databaseResp.v.Id.nil \/ databaseResp.v.Id.v = <<>>
    THEN [err |-> Errorf("id not present"), model |-> model]
    ELSE IF model.nil
    THEN [err |-> Errorf("model input is nil"), model |-> model]
    ELSE LET resolved == resolveDatabaseId(databaseResp.v, model.v)
         IN  IF ~resolved.ok
             THEN [err |-> Errorf("database id not present"), model |-> model]
             ELSE LET databaseId == resolved.databaseId
                      m1 == [model.v EXCEPT
                                !.Id = StringValue(compositeId(model.v, databaseId)),
                                !.DatabaseId = StringValue(databaseId),
                                !.Name = StringPointerValue(databaseResp.v.Name)]
                      owned == mapOwner(databaseResp.v.Options, m1)
                  IN  [err |-> owned.err, model |-> ModelPtr(owned.model)]

----------------------------------------------------------------------------
(* toCreatePayload *)

\* toCreatePayload(model *Model)
toCreatePayload(model) ==
    IF model.nil
    THEN [err |-> Errorf("nil model"),
          payload |-> [nil |-> TRUE, Name |-> NilString, Options |-> EmptyMap]]
    ELSE [err |-> NoError,
          payload |-> [nil |-> FALSE,
                       Name |-> ValueStringPointer(model.v.Name),
                       Options |-> OwnerMap(ValueString(model.v.Owner))]]

----------------------------------------------------------------------------
(* getDatabase *)

\* a ListDatabases response: Execute's (resp, err)
ListError(err) == [err |-> err, nil |-> TRUE, databasesNil |-> TRUE, databases |-> <<>>]
ListNilResponse == [err |-> NoError, nil |-> TRUE, databasesNil |-> TRUE, databases |-> <<>>]
ListNilDatabases == [err |-> NoError, nil |-> FALSE, databasesNil |-> TRUE, databases |-> <<>>]
ListOf(databases) ==
    [err |-> NoError, nil |-> FALSE, databasesNil |-> FALSE, databases |-> databases]

\* line 381
matchesId(database, databaseId) ==
    ~database.Id.nil /\ database.Id.v = databaseId

\* the mutant: the last match wins
scan_last(databases, databaseId) ==
    LET hits == {k \in 1..Len(databases) : matchesId(databases[k], databaseId)}
    IN  IF hits = {}
        THEN [database |-> NilDatabase, err |-> Errorf("database not found")]
        ELSE [database |-> DatabasePtr(databases[CHOOSE k \in hits : \A j \in hits : j <= k]),
              err |-> NoError]

\* the mutant: no match is reported like a nil response
scan_nilOnMiss(databases, databaseId) ==
    LET hits == {k \in 1..Len(databases) : matchesId(databases[k], databaseId)}
    IN  IF hits = {}
        THEN [database |-> NilDatabase, err |-> Errorf("response is nil")]
        ELSE [database |-> DatabasePtr(databases[CHOOSE k \in hits : \A j \in hits : k <= j]),
              err |-> NoError]

\* lines 380-385: the loop over *resp.Databases
scan(databases, databaseId) ==
    LET hits == {k \in 1..Len(databases) : matchesId(databases[k], databaseId)}
    IN  IF hits = {}
        THEN [database |-> NilDatabase, err |-> Errorf("database not found")]
        ELSE [database |-> DatabasePtr(databases[CHOOSE k \in hits : \A j \in hits : k <= j]),
              err |-> NoError]

\* getDatabase, given what client.ListDatabases(ctx, projectId, instanceId).Execute()
\* returned
getDatabase(listResp, databaseId) ==
    IF listResp.err # NoError
    THEN [database |-> NilDatabase, err |-> listResp.err]
    ELSE IF listResp.nil \/ listResp.databasesNil
    THEN [database |-> NilDatabase, err |-> Errorf("response is nil")]
    ELSE scan(listResp.databases, databaseId)

----------------------------------------------------------------------------
(* The driver's requests and the remote service's responses *)

\* a remote call the resource issued
RemoteCall(api, projectId, instanceId, databaseId) ==
    [api |-> api, projectId |-> projectId, instanceId |-> instanceId,
     databaseId |-> databaseId]

\* a CreateDatabase response: Execute's (databaseResp, err)
CreateError(err) == [err |-> err, nil |-> TRUE, Id |-> NilString]
CreateNilResponse == [err |-> NoError, nil |-> TRUE, Id |-> NilString]
CreateOf(id) == [err |-> NoError, nil |-> FALSE, Id |-> id]

\* lines 107-161: the plan of a Create carries the required attributes; id and
\* database_id are computed and not yet known; project_id and instance_id have
\* passed validate.NoSeparator
Plans ==
    {Model(StringNull, StringNull, StringValue(<<"b">>), StringValue(<<"a">>),
           StringValue(name), StringValue(owner)) :
        name \in {<<"a">>}, owner \in {<<"a">>, <<"b">>}}

\* the identifiers the remote service hands out
RemoteIds == {<<"a">>, <<",">>}

\* the objects a ListDatabases response carries
RemoteDatabases ==
    {InstanceDatabase(StringPtr(<<"a">>), StringPtr(<<"b">>), OptionsPtr(OwnerMap(StringOption(<<"b">>)))),
     InstanceDatabase(StringPtr(<<"a">>), NilString, NilOptions),
     InstanceDatabase(StringPtr(<<"a">>), StringPtr(<<"a">>), OptionsPtr(OwnerMap(NumberOption))),
     InstanceDatabase(StringPtr(<<",">>), StringPtr(<<"a">>), OptionsPtr(EmptyMap)),
     InstanceDatabase(NilString, StringPtr(<<"a">>), NilOptions)}

CreateResponses ==
    {CreateError(e) : e \in ApiErrors}
    \cup {CreateNilResponse, CreateOf(NilString), CreateOf(StringPtr(<<>>))}
    \cup {CreateOf(StringPtr(id)) : id \in RemoteIds}

ListResponses ==
    {ListError(e) : e \in ApiErrors}
    \cup {ListNilResponse, ListNilDatabases}
    \cup {ListOf(l) : l \in BoundedSeq(RemoteDatabases, MaxList)}

\* the import identifiers the operator supplies in a lifecycle
ImportIds ==
    {<<"a", ",", "b", ",", "a">>, <<"b", ",", "a", ",", "b">>,
     <<"a", ",", "b">>, <<"a", ",", ",", "b">>, <<"a", ",", "b", ",", "a", ",", "b">>}

NoState == [present |-> FALSE, model |-> EmptyModel]
StateOf(model) == [present |-> TRUE, model |-> model]

\* req.ProviderData of a Configure before the provider is configured
NoProviderData == [kind |-> "nil", customEndpoint |-> FALSE, newClientFails |-> FALSE]

\* what a handler invocation was given and what it answered
Invocation(op, prior, plan, rawId, createResp, listResp, diags, calls, removed) ==
    [op |-> op, prior |-> prior, plan |-> plan, rawId |-> rawId,
     createResp |-> createResp, listResp |-> listResp,
     diags |-> diags, calls |-> calls, removed |-> removed,
     client |-> client,          \* r.client when the handler was invoked
     providerData |-> NoProviderData,
     deleteErr |-> NoError]

NoInvocation ==
    Invocation("none", NoState, EmptyModel, <<>>, CreateNilResponse, ListNilResponse,
               <<>>, <<>>, FALSE)

NoCall == [fn |-> "none"]

Init ==
    /\ client = 0
    /\ state = NoState
    /\ last = NoInvocation
    /\ call = NoCall

----------------------------------------------------------------------------
(* Configure *)

\* req.ProviderData: nil, a value of another type, or a core.ProviderData with or
\* without a custom endpoint; newClientFails is what postgresflex.NewAPIClient does
ProviderDatas ==
    {NoProviderData,
     [kind |-> "other", customEndpoint |-> FALSE, newClientFails |-> FALSE]}
    \cup {[kind |-> "ProviderData", customEndpoint |-> c, newClientFails |-> f] :
            c \in BOOLEAN, f \in BOOLEAN}

ConfigureWith(providerData) ==
    LET done(diags) ==
            last' = [Invocation("Configure", state, EmptyModel, <<>>, CreateNilResponse,
                                ListNilResponse, diags, <<>>, FALSE)
                        EXCEPT !.providerData = providerData]
    IN  /\ UNCHANGED <<state, call>>
        /\ IF providerData.kind = "nil"
           THEN /\ done(<<>>)
                /\ UNCHANGED client
           ELSE IF providerData.kind # "ProviderData"
           THEN /\ done(<<ErrorDiag("Error configuring API client", "Expected configure type")>>)
                /\ UNCHANGED client
           ELSE IF providerData.newClientFails
           THEN /\ done(<<ErrorDiag("Error configuring API client", "Configuring client")>>)
                /\ UNCHANGED client
           ELSE /\ client < MaxClients
                /\ client' = client + 1
                /\ done(<<>>)

Configure == \E providerData \in ProviderDatas : ConfigureWith(providerData)

----------------------------------------------------------------------------
(* Create *)

\* the mutant: an empty Id is taken for an Id
hasDatabaseId_acceptsEmpty(databaseResp) ==
    ~(databaseResp.nil \/ databaseResp.Id.nil)

\* line 191
hasDatabaseId(databaseResp) ==
    ~(databaseResp.nil \/ databaseResp.Id.nil \/ databaseResp.Id.v = <<>>)

\* the mutant: the record is saved before the lookup and the mapping are checked
CreateWith_savesFirst(plan, createResp) ==
    LET projectId == ValueString(plan.ProjectId)
        instanceId == ValueString(plan.InstanceId)
        createCall == RemoteCall("CreateDatabase", projectId, instanceId, <<>>)
        listCall == RemoteCall("ListDatabases", projectId, instanceId, <<>>)
    IN  /\ client # 0
        /\ ~state.present
        /\ UNCHANGED <<client, call>>
        /\ createResp.err = NoError
        /\ hasDatabaseId(createResp)
        /\ \E listResp \in ListResponses :
             LET found == getDatabase(listResp, createResp.Id.v)
                 mapped == mapFields(found.database, ModelPtr(plan))
                 failed == found.err # NoError \/ mapped.err # NoError
             IN  /\ state' = StateOf(mapped.model.v)
                 /\ last' = Invocation("Create", state, plan, <<>>, createResp, listResp,
                                       IF failed
                                       THEN <<ErrorDiag("Error creating database",
                                                        "Processing API payload")>>
                                       ELSE <<>>,
                                       <<createCall, listCall>>, FALSE)

CreateWith(plan, createResp) ==
    LET model == plan
        projectId == ValueString(model.ProjectId)
        instanceId == ValueString(model.InstanceId)
        built == toCreatePayload(ModelPtr(model))
        createCall == RemoteCall("CreateDatabase", projectId, instanceId, <<>>)
        listCall == RemoteCall("ListDatabases", projectId, instanceId, <<>>)
        failed(cr, lr, detail, calls) ==
            /\ last' = Invocation("Create", state, plan, <<>>, cr, lr,
                                  <<ErrorDiag("Error creating database", detail)>>, calls, FALSE)
            /\ UNCHANGED state
    IN  /\ client # 0
        /\ ~state.present
        /\ UNCHANGED <<client, call>>
        /\ IF built.err # NoError
           THEN failed(CreateNilResponse, ListNilResponse, "Creating API payload", <<>>)
           ELSE IF createResp.err # NoError
           THEN failed(createResp, ListNilResponse, "Calling API", <<createCall>>)
           ELSE IF ~hasDatabaseId(createResp)
           THEN failed(createResp, ListNilResponse,
                       "API didn't return database Id. A database might have been created",
                       <<createCall>>)
           ELSE \E listResp \in ListResponses :
                LET databaseId == createResp.Id.v
                    found == getDatabase(listResp, databaseId)
                    mapped == mapFields(found.database, ModelPtr(model))
                IN  IF found.err # NoError
                    THEN failed(createResp, listResp,
                                "Getting database details after creation",
                                <<createCall, listCall>>)
                    ELSE IF mapped.err # NoError
                    THEN failed(createResp, listResp, "Processing API payload",
                                <<createCall, listCall>>)
                    ELSE /\ state' = StateOf(mapped.model.v)
                         /\ last' = Invocation("Create", state, plan, <<>>, createResp,
                                               listResp, <<>>, <<createCall, listCall>>, FALSE)

Create == \E plan \in Plans, createResp \in CreateResponses : CreateWith(plan, createResp)

----------------------------------------------------------------------------
(* Read *)

\* the mutant: every API error counts as not found
isNotFound_anyStatus(err) ==
    err.kind = "GenericOpenAPIError"

\* lines 236-237: the lookup error that makes Read drop the record
isNotFound(err) ==
    err.kind = "GenericOpenAPIError" /\ err.status = StatusNotFound

ReadWith(listResp) ==
    LET model == state.model
        projectId == ValueString(model.ProjectId)
        instanceId == ValueString(model.InstanceId)
        databaseId == ValueString(model.DatabaseId)
        listCall == RemoteCall("ListDatabases", projectId, instanceId, <<>>)
        found == getDatabase(listResp, databaseId)
        mapped == mapFields(found.database, ModelPtr(model))
        done(diags, removed) ==
            last' = Invocation("Read", state, EmptyModel, <<>>, CreateNilResponse, listResp,
                               diags, <<listCall>>, removed)
    IN  /\ client # 0
        /\ state.present
        /\ UNCHANGED <<client, call>>
        /\ IF found.err # NoError
           THEN IF isNotFound(found.err)
                THEN /\ state' = NoState
                     /\ done(<<>>, TRUE)
                ELSE /\ done(<<ErrorDiag("Error reading database", "Calling API")>>, FALSE)
                     /\ UNCHANGED state
           ELSE IF mapped.err # NoError
           THEN /\ done(<<ErrorDiag("Error reading database", "Processing API payload")>>, FALSE)
                /\ UNCHANGED state
           ELSE /\ state' = StateOf(mapped.model.v)
                /\ done(<<>>, FALSE)

Read == \E listResp \in ListResponses : ReadWith(listResp)

----------------------------------------------------------------------------
(* Update *)

\* the mutant: the proposed record is written
UpdateWith_applies(plan) ==
    /\ state.present
    /\ state' = StateOf(plan)
    /\ last' = Invocation("Update", state, plan, <<>>, CreateNilResponse, ListNilResponse,
                          <<>>, <<>>, FALSE)
    /\ UNCHANGED <<client, call>>

\* lines 262-265
UpdateWith(plan) ==
    /\ state.present
    /\ last' = Invocation("Update", state, plan, <<>>, CreateNilResponse, ListNilResponse,
                          <<ErrorDiag("Error updating database", "Database can't be updated")>>,
                          <<>>, FALSE)
    /\ UNCHANGED <<client, state, call>>

\* the proposed record: the current one with any of name and owner changed
Update ==
    \E name \in {<<"a">>, <<"b">>}, owner \in {<<"a">>, <<"b">>} :
        UpdateWith([state.model EXCEPT !.Name = StringValue(name), !.Owner = StringValue(owner)])

----------------------------------------------------------------------------
(* Delete *)

\* the mutant: project id and instance id change places
deleteRequest_swapped(model) ==
    RemoteCall("DeleteDatabase", ValueString(model.InstanceId),
               ValueString(model.ProjectId), ValueString(model.DatabaseId))

\* lines 277-285: the DeleteDatabase request of a record
deleteRequest(model) ==
    RemoteCall("DeleteDatabase", ValueString(model.ProjectId),
               ValueString(model.InstanceId), ValueString(model.DatabaseId))

DeleteWith(err) ==
    LET model == state.model
        deleteCall == deleteRequest(model)
        done(diags) ==
            last' = [Invocation("Delete", state, EmptyModel, <<>>, CreateNilResponse,
                                ListNilResponse, diags, <<deleteCall>>, FALSE)
                        EXCEPT !.deleteErr = err]
    IN  /\ client # 0
        /\ state.present
        /\ UNCHANGED <<client, call>>
        /\ IF err # NoError
           THEN /\ done(<<ErrorDiag("Error deleting database", "Calling API")>>)
                /\ UNCHANGED state
           ELSE \* the driver drops the record of a Delete that reported no error
                /\ done(<<>>)
                /\ state' = NoState

Delete == \E err \in ApiErrors \cup {NoError} : DeleteWith(err)

----------------------------------------------------------------------------
(* ImportState *)

\* the mutant: empty parts pass
validImportId_lenOnly(idParts) ==
    Len(idParts) = 3

\* line 296
validImportId(idParts) ==
    ~(Len(idParts) # 3 \/ idParts[1] = <<>> \/ idParts[2] = <<>> \/ idParts[3] = <<>>)

\* the mutant: instance id and project id change places
importedModel_swapped(idParts) ==
    [EmptyModel EXCEPT !.ProjectId = StringValue(idParts[2]),
                       !.InstanceId = StringValue(idParts[1]),
                       !.DatabaseId = StringValue(idParts[3])]

\* lines 304-306: the three attributes set on the empty state of an import
importedModel(idParts) ==
    [EmptyModel EXCEPT !.ProjectId = StringValue(idParts[1]),
                       !.InstanceId = StringValue(idParts[2]),
                       !.DatabaseId = StringValue(idParts[3])]

ImportStateWith(rawId) ==
    LET idParts == Split(rawId, Separator)
        done(diags) ==
            last' = Invocation("ImportState", state, EmptyModel, rawId, CreateNilResponse,
                               ListNilResponse, diags, <<>>, FALSE)
    IN  /\ ~state.present
        /\ UNCHANGED <<client, call>>
        /\ IF ~validImportId(idParts)
           THEN /\ done(<<ErrorDiag("Error importing database",
                                    "Expected import identifier with format [project_id],[instance_id],[database_id]")>>)
                /\ UNCHANGED state
           ELSE /\ state' = StateOf(importedModel(idParts))
                /\ done(<<WarningDiag("Postgresflex database imported with empty password",
                                      "The database password is not imported")>>)

ImportState == \E rawId \in ImportIds : ImportStateWith(rawId)

----------------------------------------------------------------------------
(* The lifecycle: the driver invokes the handlers one at a time *)

Next ==
    \/ Configure
    \/ Create
    \/ Read
    \/ Update
    \/ Delete
    \/ ImportState

Spec == Init /\ [][Next]_vars

----------------------------------------------------------------------------
(* ImportState on every identifier up to MaxRawLen characters *)

RawIds == BoundedSeq(Alphabet, MaxRawLen)

ImportAny == \E rawId \in RawIds : ImportStateWith(rawId)

SpecImport == Init /\ [][ImportAny]_vars

----------------------------------------------------------------------------
(* getDatabase applied to every list response over ScanDatabases *)

ScanDatabases ==
    {InstanceDatabase(id, name, NilOptions) :
        id \in {NilString, StringPtr(<<>>), StringPtr(<<"a">>), StringPtr(<<"b">>)},
        name \in {NilString, StringPtr(<<"a">>)}}

ScanListResponses ==
    {ListError(e) : e \in ApiErrors}
    \cup {ListNilResponse, ListNilDatabases}
    \cup {ListOf(l) : l \in BoundedSeq(ScanDatabases, MaxScanList)}

ScanTargets == {<<>>, <<"a">>, <<"b">>}

NoLookup == [database |-> NilDatabase, err |-> NoError]

InitScan ==
    /\ client = 0
    /\ state = NoState
    /\ last = NoInvocation
    /\ call \in {[fn |-> "getDatabase", listResp |-> r, databaseId |-> d,
                  done |-> FALSE, result |-> NoLookup] :
                    r \in ScanListResponses, d \in ScanTargets}

ApplyGetDatabase ==
    /\ call.fn = "getDatabase"
    /\ ~call.done
    /\ call' = [call EXCEPT !.done = TRUE,
                            !.result = getDatabase(call.listResp, call.databaseId)]
    /\ UNCHANGED <<client, state, last>>

SpecScan == InitScan /\ [][ApplyGetDatabase]_vars

----------------------------------------------------------------------------
(* mapFields applied to every remote object and record over small sets *)

MapDatabases ==
    {NilDatabase}
    \cup {DatabasePtr(InstanceDatabase(id, name, options)) :
            id \in {NilString, StringPtr(<<>>), StringPtr(<<"a">>), StringPtr(<<"b">>)},
            name \in {NilString, StringPtr(<<"a">>)},
            options \in {NilOptions, OptionsPtr(EmptyMap),
                         OptionsPtr(OwnerMap(StringOption(<<"b">>))),
                         OptionsPtr(OwnerMap(NumberOption))}}

MapModels ==
    {NilModel}
    \cup {ModelPtr(Model(id, databaseId, StringValue(<<"b">>), StringValue(<<"a">>), name, owner)) :
            id \in {StringNull, StringValue(<<"a", ",", "b", ",", "a">>)},
            databaseId \in {StringNull, StringValue(<<"a">>)},
            name \in {StringNull, StringValue(<<"b">>)},
            owner \in {StringNull, StringValue(<<"a">>)}}

NoMapping == [err |-> NoError, model |-> NilModel]

InitMap ==
    /\ client = 0
    /\ state = NoState
    /\ last = NoInvocation
    /\ call \in {[fn |-> "mapFields", databaseResp |-> d, model |-> m,
                  done |-> FALSE, result |-> NoMapping] :
                    d \in MapDatabases, m \in MapModels}

ApplyMapFields ==
    /\ call.fn = "mapFields"
    /\ ~call.done
    /\ call' = [call EXCEPT !.done = TRUE,
                            !.result = mapFields(call.databaseResp, call.model)]
    /\ UNCHANGED <<client, state, last>>

\* mapFields applied once more, with the same remote object, to the record the
\* first application left
ApplyMapFieldsAgain ==
    /\ call.fn = "mapFields"
    /\ call.done
    /\ call' = [fn |-> "mapFields twice", databaseResp |-> call.databaseResp,
                model |-> call.model, first |-> call.result,
                second |-> mapFields(call.databaseResp, call.result.model)]
    /\ UNCHANGED <<client, state, last>>

NextMap == ApplyMapFields \/ ApplyMapFieldsAgain

SpecMap == InitMap /\ [][NextMap]_vars

----------------------------------------------------------------------------
(* Properties *)

Succeeded(op) == last.op = op /\ ~HasError(last.diags) /\ ~last.removed

\* the list call of the last invocation returned a list
ListReturned ==
    last.listResp.err = NoError /\ ~last.listResp.nil /\ ~last.listResp.databasesNil

\* the positions of the objects of a list whose Id is id
PositionsOf(databases, id) ==
    {k \in 1..Len(databases) : databases[k].Id = StringPtr(id)}

ListCalls == {k \in 1..Len(last.calls) : last.calls[k].api = "ListDatabases"}

\* C1: a Read of a record whose DatabaseId is the Id of no object of the list
\* the remote returned drops the record and reports no error.
C1_ReadDropsMissing ==
    (/\ last.op = "Read"
     /\ ListReturned
     /\ PositionsOf(last.listResp.databases, ValueString(last.prior.model.DatabaseId)) = {})
    => (last.removed /\ ~state.present /\ ~HasError(last.diags))

\* C2: after every successful Create and every successful Read the persisted
\* record has Id = ProjectId, separator, InstanceId, separator, DatabaseId.
C2_CompositeIdJoined ==
    (Succeeded("Create") \/ Succeeded("Read"))
    => /\ state.present
       /\ state.model.Id =
            StringValue(ValueString(state.model.ProjectId) \o Separator
                        \o ValueString(state.model.InstanceId) \o Separator
                        \o ValueString(state.model.DatabaseId))

C2_Witness ==
    /\ Succeeded("Read")
    /\ last.prior.model.Id = StringNull
    /\ state.model.Id = StringValue(<<"a", ",", "b", ",", "a">>)

\* the non-empty identifiers without a separator, of at most n characters
Parts(n) ==
    {x \in BoundedSeq(Alphabet, n) : x # <<>> /\ \A k \in 1..Len(x) : <<x[k]>> # Separator}

\* C3: ImportState of p, separator, i, separator, d, for non-empty p, i, d
\* without a separator, reports no error and yields ProjectId = p,
\* InstanceId = i, DatabaseId = d.
C3_ImportRoundTrip ==
    \A p \in Parts(MaxRawLen - 4), i \in Parts(MaxRawLen - 4), d \in Parts(MaxRawLen - 4) :
        (last.op = "ImportState" /\ last.rawId = p \o Separator \o i \o Separator \o d)
        => /\ ~HasError(last.diags)
           /\ state.present
           /\ state.model.ProjectId = StringValue(p)
           /\ state.model.InstanceId = StringValue(i)
           /\ state.model.DatabaseId = StringValue(d)

C3_Witness ==
    /\ last.op = "ImportState"
    /\ last.rawId = <<"a", ",", "b", ",", "a">>
    /\ state.model.ProjectId = StringValue(<<"a">>)
    /\ state.model.InstanceId = StringValue(<<"b">>)

\* the identifier is three non-empty parts without a separator, joined by it:
\* it holds two separators, neither at an end, and not next to each other
ThreeParts(rawId) ==
    LET seps == {k \in 1..Len(rawId) : <<rawId[k]>> = Separator}
    IN  /\ Cardinality(seps) = 2
        /\ 1 \notin seps
        /\ Len(rawId) \notin seps
        /\ \A k \in seps : k + 1 \notin seps

\* C4: ImportState of an identifier that is not three non-empty parts joined
\* by the separator reports an error, writes nothing to the state and emits
\* no warning.
C4_ImportRejects ==
    (last.op = "ImportState" /\ ~ThreeParts(last.rawId))
    => /\ HasError(last.diags)
       /\ \A k \in 1..Len(last.diags) : last.diags[k].severity # "warning"
       /\ state = NoState

C4_Witness ==
    /\ last.op = "ImportState"
    /\ last.rawId = <<"a", ",", ",", "b">>
    /\ HasError(last.diags)

PartialFailure ==
    ErrorDiag("Error creating database",
              "API didn't return database Id. A database might have been created")

\* C5: a Create whose create call errors reports an error; one whose create
\* call returns no response, no Id or an empty Id reports the "might have been
\* created" error, which is another one; neither lists the databases nor
\* persists a record.
C5_CreateFailures ==
    (last.op = "Create" /\ Len(last.calls) > 0)
    => /\ last.createResp.err # NoError
          => /\ HasError(last.diags)
             /\ PartialFailure \notin {last.diags[k] : k \in 1..Len(last.diags)}
             /\ ListCalls = {}
             /\ ~state.present
       /\ (/\ last.createResp.err = NoError
           /\ (last.createResp.nil \/ last.createResp.Id.nil \/ last.createResp.Id.v = <<>>))
          => /\ last.diags = <<PartialFailure>>
             /\ ListCalls = {}
             /\ ~state.present

C5_Witness ==
    /\ last.op = "Create"
    /\ last.createResp = CreateOf(StringPtr(<<>>))
    /\ last.diags = <<PartialFailure>>

\* C6: after a successful Create the persisted record has the DatabaseId the
\* create call returned, the planned ProjectId and InstanceId, and the Name and
\* owner option of the first listed object with that Id (the planned Owner
\* when that object has no owner option).
C6_CreateRecord ==
    Succeeded("Create")
    => LET id == last.createResp.Id.v
           hits == PositionsOf(last.listResp.databases, id)
           first == CHOOSE k \in hits : \A j \in hits : k <= j
           object == last.listResp.databases[first]
           hasOwner == ~object.Options.nil /\ "owner" \in DOMAIN object.Options.m
       IN  /\ state.present
           /\ hits # {}
           /\ state.model.DatabaseId = StringValue(id)
           /\ state.model.ProjectId = last.plan.ProjectId
           /\ state.model.InstanceId = last.plan.InstanceId
           /\ state.model.Name =
                (IF object.Name.nil THEN StringNull ELSE StringValue(object.Name.v))
           /\ state.model.Owner =
                (IF hasOwner THEN StringValue(object.Options.m["owner"].s) ELSE last.plan.Owner)

C6_Witness ==
    /\ Succeeded("Create")
    /\ last.plan.Owner = StringValue(<<"a">>)
    /\ state.model.Owner = StringValue(<<"b">>)
    /\ state.model.DatabaseId = StringValue(<<"a">>)
    /\ Len(last.listResp.databases) = 2

NotFound == Errorf("database not found")

\* C7: getDatabase on a list that was returned and holds no object with the
\* target Id (objects without an Id included) returns no object and the
\* not-found error; when the list call errors or returns no list it returns
\* another error.
C7_NotFoundOnMiss ==
    (call.fn = "getDatabase" /\ call.done)
    => LET r == call.listResp
           returned == r.err = NoError /\ ~r.nil /\ ~r.databasesNil
       IN  /\ (returned /\ PositionsOf(r.databases, call.databaseId) = {})
              => (call.result.err = NotFound /\ call.result.database.nil)
           /\ ~returned
              => /\ call.result.err \notin {NotFound, NoError}
                 /\ call.result.database.nil

C7_Witness ==
    /\ call.fn = "getDatabase" /\ call.done
    /\ call.databaseId = <<>>
    /\ call.listResp.err = NoError
    /\ Len(call.listResp.databases) = 2
    /\ call.listResp.databases[1].Id.nil
    /\ call.result.err = NotFound

\* C8: getDatabase returns the first object of the list, in the order of the
\* list, whose Id is the target; later objects with that Id do not count.
C8_FirstMatch ==
    (call.fn = "getDatabase" /\ call.done /\ call.listResp.err = NoError
        /\ ~call.listResp.nil /\ ~call.listResp.databasesNil)
    => \A k \in PositionsOf(call.listResp.databases, call.databaseId) :
          (\A j \in 1..(k - 1) : j \notin PositionsOf(call.listResp.databases, call.databaseId))
          => /\ call.result.err = NoError
             /\ call.result.database = DatabasePtr(call.listResp.databases[k])

C8_Witness ==
    /\ call.fn = "getDatabase" /\ call.done
    /\ Len(call.listResp.databases) = 3
    /\ call.listResp.databases[1].Id = StringPtr(<<"b">>)
    /\ call.listResp.databases[2].Id = StringPtr(<<"a">>)
    /\ call.listResp.databases[3].Id = StringPtr(<<"a">>)
    /\ call.listResp.databases[2].Name # call.listResp.databases[3].Name
    /\ call.databaseId = <<"a">>
    /\ call.result.database = DatabasePtr(call.listResp.databases[2])

\* C9: mapFields on an object whose owner option is no string returns the
\* type-mismatch error and leaves every field of the record as it was.
C9_MismatchLeavesRecord ==
    (/\ call.fn = "mapFields" /\ call.done
     /\ ~call.databaseResp.nil /\ ~call.model.nil
     /\ ~call.databaseResp.v.Id.nil /\ call.databaseResp.v.Id.v # <<>>
     /\ ~call.databaseResp.v.Options.nil
     /\ "owner" \in DOMAIN call.databaseResp.v.Options.m
     /\ ~call.databaseResp.v.Options.m["owner"].isString)
    => /\ call.result.err = Errorf("owner is not a string")
       /\ call.result.model = call.model

\* C10: Update reports the same one error whatever the current and the
\* proposed record, issues no remote call and leaves the persisted record alone.
C10_UpdateFails ==
    last.op = "Update"
    => /\ last.diags = <<ErrorDiag("Error updating database", "Database can't be updated")>>
       /\ last.calls = <<>>
       /\ state = last.prior

C10_Witness ==
    /\ last.op = "Update"
    /\ state.present
    /\ last.plan.Owner # state.model.Owner
    /\ last.plan.Name # state.model.Name

\* C11: mapFields applied a second time, with the same remote object, to the
\* record the first application left returns the same error or success and
\* leaves the same record.
C11_MapFieldsIdempotent ==
    call.fn = "mapFields twice"
    => /\ call.second.err = call.first.err
       /\ call.second.model = call.first.model

C11_Witness ==
    /\ call.fn = "mapFields twice"
    /\ call.first.err = NoError
    /\ call.model.v.Id = StringNull
    /\ call.model.v.DatabaseId = StringNull
    /\ call.first.model # call.model
    /\ call.second.model = call.first.model

\* C12: a mapFields that succeeds on an object whose Options is nil or holds no
\* owner key leaves Owner as it was and sets Name to the remote Name, null when
\* the remote Name is nil.
C12_OwnerKeptNameCopied ==
    (/\ call.fn = "mapFields" /\ call.done
     /\ call.result.err = NoError
     /\ (call.databaseResp.v.Options.nil
            \/ "owner" \notin DOMAIN call.databaseResp.v.Options.m))
    => /\ call.result.model.v.Owner = call.model.v.Owner
       /\ call.result.model.v.Name =
            (IF call.databaseResp.v.Name.nil THEN StringNull
             ELSE StringValue(call.databaseResp.v.Name.v))

C12_Witness ==
    /\ call.fn = "mapFields" /\ call.done
    /\ call.result.err = NoError
    /\ ~call.databaseResp.v.Options.nil
    /\ "owner" \notin DOMAIN call.databaseResp.v.Options.m
    /\ call.databaseResp.v.Name.nil
    /\ call.model.v.Name = StringValue(<<"b">>)
    /\ call.model.v.Owner = StringValue(<<"a">>)
    /\ call.result.model.v.Name = StringNull
    /\ call.result.model.v.Owner = StringValue(<<"a">>)

\* C13: Delete issues one DeleteDatabase call, with the ProjectId, InstanceId
\* and DatabaseId of the record, and no other call; when that call fails it
\* reports an error and leaves the record as it was.
C13_DeleteOnce ==
    last.op = "Delete"
    => /\ last.calls =
            <<RemoteCall("DeleteDatabase", ValueString(last.prior.model.ProjectId),
                         ValueString(last.prior.model.InstanceId),
                         ValueString(last.prior.model.DatabaseId))>>
       /\ last.deleteErr # NoError
          => /\ HasError(last.diags)
             /\ Len(last.diags) = 1
             /\ state = last.prior

C13_Witness ==
    /\ last.op = "Delete"
    /\ last.deleteErr = TransportError
    /\ HasError(last.diags)
    /\ state.present
    /\ state.model.ProjectId = StringValue(<<"a">>)
    /\ state.model.InstanceId = StringValue(<<"b">>)

\* C14: over any sequence of Configure calls the client is built and assigned
\* at most once, a later Configure not replacing it; a Configure without
\* provider data changes nothing; a Configure that fails reports an error and
\* leaves the client as it was.
C14_ConfiguredOnce ==
    last.op = "Configure"
    => /\ last.client # 0 => client = last.client
       /\ last.providerData.kind = "nil"
          => (client = last.client /\ last.diags = <<>>)
       /\ (last.providerData.kind = "other" \/ last.providerData.newClientFails)
          => (HasError(last.diags) /\ client = last.client)

\* the Id of a record is its ProjectId, InstanceId and DatabaseId joined
JoinedId(model) ==
    model.Id = StringValue(ValueString(model.ProjectId) \o Separator
                           \o ValueString(model.InstanceId) \o Separator
                           \o ValueString(model.DatabaseId))

\* C15: every record the resource has written, the one a successful
\* ImportState leaves included, has Id = ProjectId, separator, InstanceId,
\* separator, DatabaseId.
C15_CompositeIdAlways ==
    state.present => JoinedId(state.model)

SameIds(m1, m2) ==
    /\ m1.DatabaseId = m2.DatabaseId
    /\ m1.ProjectId = m2.ProjectId
    /\ m1.InstanceId = m2.InstanceId

\* C16: a record has a non-empty DatabaseId from the Create or ImportState that
\* made it, and a Read that leaves a record leaves it with the DatabaseId,
\* ProjectId and InstanceId it had; mapFields on the record keeps the three
\* whatever remote object it is given and whatever it returns.
C16_IdsImmutable ==
    state.present
    => /\ ValueString(state.model.DatabaseId) # <<>>
       /\ last.op = "Read" => SameIds(state.model, last.prior.model)
       /\ \A databaseResp \in MapDatabases :
            SameIds(mapFields(databaseResp, ModelPtr(state.model)).model.v, state.model)

C16_Witness ==
    /\ Succeeded("Read")
    /\ last.prior.model.Id # StringNull
    /\ last.prior.model.DatabaseId = StringValue(<<"a">>)
    /\ state.model.DatabaseId = StringValue(<<"a">>)
    /\ state.model.Name # last.prior.model.Name

CallsOf(api) == {k \in 1..Len(last.calls) : last.calls[k].api = api}

\* the calls of a Create: at most one create call, then at most one list call,
\* made only after the create call returned a non-empty Id
CreateCallOrder ==
    last.op = "Create"
    => /\ Cardinality(CallsOf("CreateDatabase")) <= 1
       /\ Cardinality(CallsOf("ListDatabases")) <= 1
       /\ CallsOf("DeleteDatabase") = {}
       /\ CallsOf("ListDatabases") # {}
          => /\ CallsOf("CreateDatabase") = {1}
             /\ CallsOf("ListDatabases") = {2}
             /\ last.createResp.err = NoError
             /\ ~last.createResp.nil
             /\ ~last.createResp.Id.nil
             /\ last.createResp.Id.v # <<>>
       /\ (CallsOf("CreateDatabase") # {} /\ last.createResp.err # NoError)
          => (HasError(last.diags) /\ Len(last.calls) = 1)
       /\ (CallsOf("ListDatabases") # {} /\ last.listResp.err # NoError)
          => (HasError(last.diags) /\ Len(last.calls) = 2)

\* the calls of a Read: one list call
ReadCallOrder ==
    last.op = "Read"
    => /\ Len(last.calls) = 1
       /\ CallsOf("ListDatabases") = {1}

DeleteCallOrder ==
    (last.op = "Delete" /\ last.deleteErr # NoError)
    => (HasError(last.diags) /\ Len(last.calls) = 1)

\* C17 as claimed: no operation retries, the calls are ordered, and every
\* remote call error ends the operation with an error diagnostic.
C17_ErrorsAlwaysReported ==
    /\ CreateCallOrder
    /\ ReadCallOrder
    /\ DeleteCallOrder
    /\ (last.op = "Read" /\ last.listResp.err # NoError) => HasError(last.diags)

\* C17: no operation retries and the calls are ordered; a remote call error
\* ends the operation without a further call, and with an error diagnostic
\* unless it is the list call of a Read failing with an API error of status
\* 404: that Read drops the record and reports nothing.
C17_CallOrder ==
    /\ CreateCallOrder
    /\ ReadCallOrder
    /\ DeleteCallOrder
    /\ (last.op = "Read" /\ last.listResp.err # NoError)
       => IF last.listResp.err.kind = "GenericOpenAPIError" /\ last.listResp.err.status = 404
          THEN last.removed /\ ~state.present /\ last.diags = <<>>
          ELSE HasError(last.diags) /\ ~last.removed /\ state = last.prior

C17_Witness ==
    /\ last.op = "Read"
    /\ last.listResp.err = OpenAPIError(404)
    /\ last.removed
    /\ last.diags = <<>>
    /\ Len(last.calls) = 1

\* C18: a Create or a Read that ends with an error diagnostic leaves the
\* persisted record as it was before the call; in particular a Create whose
\* create call returned an Id and whose lookup or mapping then failed has made
\* the create call and persisted no record.
C18_ErrorKeepsState ==
    /\ (last.op \in {"Create", "Read"} /\ HasError(last.diags)) => state = last.prior
    /\ (/\ last.op = "Create"
        /\ HasError(last.diags)
        /\ last.createResp.err = NoError
        /\ ~last.createResp.nil
        /\ ~last.createResp.Id.nil
        /\ last.createResp.Id.v # <<>>)
       => /\ CallsOf("CreateDatabase") = {1}
          /\ CallsOf("ListDatabases") = {2}
          /\ ~state.present

C18_Witness ==
    /\ last.op = "Create"
    /\ last.createResp = CreateOf(StringPtr(<<"a">>))
    /\ last.diags = <<ErrorDiag("Error creating database", "Processing API payload")>>
    /\ Len(last.listResp.databases) = 1
    /\ ~state.present

\* C19: the Id of every record a successful Create or Read persisted is a
\* valid import identifier: three non-empty parts without a separator, which
\* ImportState accepts and reads back as the record's ProjectId, InstanceId and
\* DatabaseId, whatever Id the remote service assigned.
C19_CompositeIdImportable ==
    (Succeeded("Create") \/ Succeeded("Read"))
    => LET id == ValueString(state.model.Id)
           idParts == Split(id, Separator)
       IN  /\ ThreeParts(id)
           /\ validImportId(idParts)
           /\ SameIds(importedModel(idParts), state.model)

====
